---------------------------- MODULE Spec2Model ----------------------------
(***************************************************************************)
(* A model of syntax-test_dev.py (PackageDev): the syntax-test grammar,    *)
(* the test-file classifier, the upward line walker, the suggestion        *)
(* command and the highlight event handler, over a host view that is a     *)
(* character buffer, a file name and a primary selection.                  *)
(*                                                                         *)
(* Conventions.  A text is a sequence of one-character strings, a buffer   *)
(* position is 0-based as in the host (position p holds text[p + 1]), a    *)
(* region is a pair <<begin, end>>, and Python's None is the empty tuple.  *)
(***************************************************************************)
EXTENDS Integers, Sequences, FiniteSets, TLC

VARIABLES
    buf,      \* the view's text
    fname,    \* view.file_name(): None or a path
    sel,      \* view.sel()[0], the primary selection
    regions,  \* the regions drawn under the key 'current_syntax_test'
    pending,  \* scheduled on_selection_modified_async calls that have not run
    hstat,    \* how the last highlight recomputation ended ("idle": none has run)
    frame,    \* the locals of the last SuggestSyntaxTest.run
    ncmd,     \* commands run so far
    walked    \* the result of the last direct call of the line walker

vars == <<buf, fname, sel, regions, pending, hstat, frame, ncmd, walked>>

None == <<>>

NL == "\n"

-----------------------------------------------------------------------------
(* Bounds of the model.                                                    *)

MaxSelWidth == 2

MaxCommands == 2

MaxPending == 2

MaxLines == 3

MaxSessionCommands == 1

-----------------------------------------------------------------------------
(* Sequence helpers.                                                       *)

Min(S) == CHOOSE x \in S : \A y \in S : x <= y

Max(S) == CHOOSE x \in S : \A y \in S : x >= y

Drop(s, n) == SubSeq(s, n + 1, Len(s))

Take(s, n) == SubSeq(s, 1, n)

\* the number of leading elements of s that are in class (member) or are
\* not in it (~member)
LeadingWhile(s, class, member) ==
    Min({i \in 0..Len(s) : i = Len(s) \/ (s[i + 1] \in class) # member})

\* the first position of s from i on whose element is not such, the length
\* of s when there is none
SkipWhile(s, i, class, member) ==
    Min({Len(s)} \cup {j \in i..(Len(s) - 1) : (s[j + 1] \in class) # member})

StartsWith(s, prefix) ==
    Len(s) >= Len(prefix) /\ Take(s, Len(prefix)) = prefix

RECURSIVE Repeat(_, _)
Repeat(c, n) == IF n <= 0 THEN <<>> ELSE <<c>> \o Repeat(c, n - 1)

RECURSIVE JoinWith(_, _)
JoinWith(parts, sep) ==
    IF parts = <<>> THEN <<>>
    ELSE IF Len(parts) = 1 THEN parts[1]
    ELSE parts[1] \o sep \o JoinWith(Tail(parts), sep)

-----------------------------------------------------------------------------
(* The host view (sublime.View) as the plugin uses it.                     *)

View(text, name, selection) == [text |-> text, name |-> name, sel |-> selection]

RegionBegin(r) == IF r[1] <= r[2] THEN r[1] ELSE r[2]

RegionEnd(r) == IF r[1] <= r[2] THEN r[2] ELSE r[1]

RegionEmpty(r) == r[1] = r[2]

\* view.line(pos): the region of the line that holds pos, without its newline
ViewLine(text, pos) ==
    <<Max({0} \cup {i \in 1..pos : text[i] = NL}),
      Min({Len(text)} \cup {j \in pos..(Len(text) - 1) : text[j + 1] = NL})>>

\* view.substr(region)
ViewSubstr(text, r) == SubSeq(text, RegionBegin(r) + 1, RegionEnd(r))

\* view.rowcol(pos)[1]
ViewCol(text, pos) == pos - ViewLine(text, pos)[1]

\* view.replace(edit, region, string), as text
ReplaceText(text, r, s) ==
    Take(text, RegionBegin(r)) \o s \o Drop(text, RegionEnd(r))

\* view.replace(edit, view.sel()[0], string), as the selection it leaves: the
\* host keeps a replaced non-empty selection over the new text, and moves a
\* caret (an empty selection) behind the text inserted at it
ReplaceSel(r, s) ==
    IF RegionEmpty(r) THEN <<r[1] + Len(s), r[1] + Len(s)>>
    ELSE <<RegionBegin(r), RegionBegin(r) + Len(s)>>

\* view.erase(edit, region)
EraseText(text, r) == Take(text, RegionBegin(r)) \o Drop(text, RegionEnd(r))

\* view.insert(edit, pos, string)
InsertText(text, pos, s) == Take(text, pos) \o s \o Drop(text, pos)

-----------------------------------------------------------------------------
(* Texts.                                                                  *)

Space == {" ", "\t", NL}

SyntaxTestLiteral == <<"S", "Y", "N", "T", "A", "X", " ", "T", "E", "S", "T">>

NamePrefix == <<"s", "y", "n", "t", "a", "x", "_", "t", "e", "s", "t", "_">>

MaxFirstLine == 1000

-----------------------------------------------------------------------------
(* get_syntax_test_tokens: the first line matched against                  *)
(*   ^(\S+)\s+SYNTAX TEST\s+"[^"]+"\s*(\S+)?$                              *)
(* Each greedy group is followed by a character it cannot match, so the    *)
(* match, if any, is the one that takes every group maximal: p1 to p7 are  *)
(* the positions where the groups end.                                     *)

Quote == {"\""}

MatchDeclaration(t) ==
    LET p1 == SkipWhile(t, 0, Space, FALSE)
        p2 == SkipWhile(t, p1, Space, TRUE)
        p3 == p2 + Len(SyntaxTestLiteral)
        p4 == SkipWhile(t, p3, Space, TRUE)
        p5 == SkipWhile(t, p4 + 1, Quote, FALSE)
        p6 == SkipWhile(t, p5 + 1, Space, TRUE)
    IN  IF /\ p1 >= 1
           /\ p2 > p1
           /\ StartsWith(Drop(t, p2), SyntaxTestLiteral)
           /\ p4 > p3
           /\ p4 < Len(t) /\ t[p4 + 1] = "\""
           /\ p5 > p4 + 1
           /\ p5 < Len(t) /\ t[p5 + 1] = "\""
           /\ SkipWhile(t, p6, Space, FALSE) = Len(t)
        THEN <<Take(t, p1), Drop(t, p6)>>
        ELSE None

\* lines 18 to 21: the groups of the match, (None, None) without one
TokensOfMatch(match) == IF match = None THEN <<None, None>> ELSE match

get_syntax_test_tokens(view) ==
    TokensOfMatch(
        IF ViewLine(view.text, 0)[2] - ViewLine(view.text, 0)[1] < MaxFirstLine
        THEN MatchDeclaration(ViewSubstr(view.text, ViewLine(view.text, 0)))
        ELSE None)

-----------------------------------------------------------------------------
(* is_syntax_test_file                                                     *)

\* os.path.basename
Basename(name) ==
    Drop(name, Max({0} \cup {i \in 1..Len(name) : name[i] = "/"}))

is_syntax_test_file(view) ==
    IF view.name # None
    THEN StartsWith(Basename(view.name), NamePrefix)
    ELSE get_syntax_test_tokens(view)[1] # None

-----------------------------------------------------------------------------
(* get_details_of_test_assertion_line                                      *)

AssertionLineDetails(marker, colrange, region) ==
    [comment_marker_match |-> marker,
     assertion_colrange |-> colrange,
     line_region |-> region]

\* re.match(r'^\s*(' + re.escape(token) + r')', line_text): the span of group 1
MatchCommentToken(line_text, token) ==
    IF StartsWith(Drop(line_text, LeadingWhile(line_text, Space, TRUE)), token)
    THEN <<LeadingWhile(line_text, Space, TRUE),
           LeadingWhile(line_text, Space, TRUE) + Len(token)>>
    ELSE None

Caret == {"^"}

\* re.match(r'\s*(?:(<-)|(\^+))', rest): <<"<-", 0, 0>>, or <<"^", start(2),
\* end(2)>>, or None
MatchAssertion(rest) ==
    LET ws == LeadingWhile(rest, Space, TRUE) IN
    IF StartsWith(Drop(rest, ws), <<"<", "-">>) THEN <<"<-", 0, 0>>
    ELSE IF SkipWhile(rest, ws, Caret, TRUE) > ws
    THEN <<"^", ws, SkipWhile(rest, ws, Caret, TRUE)>>
    ELSE None

\* lines 59 to 65: the columns of the assertion
AssertionColrange(marker, assertion) ==
    IF assertion = None THEN None
    ELSE IF assertion[1] = "<-" THEN <<marker[1], marker[1]>>
    ELSE <<marker[2] + assertion[2], marker[2] + assertion[3]>>

\* lines 56 to 67, with the match of the comment token at hand
DetailsOfMarker(line_region, line_text, marker) ==
    AssertionLineDetails(
        marker,
        IF marker = None THEN None
        ELSE AssertionColrange(marker,
                               MatchAssertion(Drop(line_text, marker[2]))),
        line_region)

\* lines 51 to 55, with the tokens at hand
DetailsWithTokens(text, pos, tokens) ==
    IF tokens[1] = None THEN AssertionLineDetails(None, None, None)
    ELSE DetailsOfMarker(
            ViewLine(text, pos),
            ViewSubstr(text, ViewLine(text, pos)),
            MatchCommentToken(ViewSubstr(text, ViewLine(text, pos)), tokens[1]))

get_details_of_test_assertion_line(view, pos) ==
    IF ~is_syntax_test_file(view) THEN AssertionLineDetails(None, None, None)
    ELSE DetailsWithTokens(view.text, pos, get_syntax_test_tokens(view))

-----------------------------------------------------------------------------
(* get_details_of_line_being_tested.  The result is a record: exc names    *)
(* the exception the call raised ("none": it returned), lines is the run   *)
(* (None when the view is no test file), line the tested line's region,    *)
(* and absent tells the (None, None) return.                               *)

WalkResult(exc, lines, line) ==
    [exc |-> exc, lines |-> lines, line |-> line, absent |-> FALSE]

\* one iteration of the while loop (lines 96 to 103), and the loop from the
\* next position on (line 94); at line 96 the details of a view whose tokens
\* are absent have no line region
RECURSIVE WalkLoop(_, _, _, _)

\* a walk that lets every comment line pass as if it were the first line
WalkStepEveryCommentLine(view, first_line, lines, details) ==
    IF details.line_region = None
    THEN WalkResult("AttributeError", lines, None)
    ELSE IF details.assertion_colrange = None
            /\ details.comment_marker_match = None
    THEN WalkResult("none", lines, details.line_region)
    ELSE IF details.line_region[1] - 1 >= 0
    THEN WalkLoop(view, details.line_region[1] - 1, FALSE,
                  Append(lines, details))
    ELSE WalkResult("none", Append(lines, details), details.line_region)

WalkStep(view, first_line, lines, details) ==
    IF details.line_region = None
    THEN WalkResult("AttributeError", lines, None)
    ELSE IF details.assertion_colrange = None
            /\ (~first_line \/ details.comment_marker_match = None)
    THEN WalkResult("none", lines, details.line_region)
    ELSE IF details.line_region[1] - 1 >= 0
    THEN WalkLoop(view, details.line_region[1] - 1, FALSE,
                  Append(lines, details))
    ELSE WalkResult("none", Append(lines, details), details.line_region)

WalkLoop(view, pos, first_line, lines) ==
    WalkStep(view, first_line, lines,
             get_details_of_test_assertion_line(view, pos))

get_details_of_line_being_tested(view) ==
    IF ~is_syntax_test_file(view)
    THEN [exc |-> "none", lines |-> None, line |-> None, absent |-> TRUE]
    ELSE WalkLoop(view, RegionBegin(view.sel), TRUE, <<>>)

-----------------------------------------------------------------------------
(* The host's syntax: view.scope_name and sublime.score_selector.  A scope *)
(* name is the list of its space-separated components (what .split()      *)
(* yields), a component the list of its dot-separated atoms.  The syntax   *)
(* assigned to the buffer scopes each character by its class.              *)

BaseScope == <<<<"s", "x">>>>

ScopeOfChar(c) ==
    CASE c = "a" -> <<<<"s", "x">>, <<"q">>>>
      [] c = "b" -> <<<<"s", "x">>, <<"q", "d">>>>
      [] c = "c" -> <<<<"t">>, <<"k">>>>
      [] c = "d" -> <<<<"m">>, <<"s", "x">>>>
      [] OTHER -> BaseScope

\* view.scope_name(pos).split(); at and beyond the end of the buffer the host
\* answers with the syntax's base scope
ScopeName(text, pos) ==
    IF pos >= 0 /\ pos < Len(text) THEN ScopeOfChar(text[pos + 1])
    ELSE BaseScope

\* sublime.score_selector(scope, selector) for a selector of one component:
\* the number of atoms matched, 0 when no component of the scope starts with
\* the selector's atoms
ScoreSelector(scope, selector) ==
    IF \E i \in 1..Len(scope) : StartsWith(scope[i], selector)
    THEN Len(selector)
    ELSE 0

\* a component, and a list of components, as text
ComponentText(component) ==
    JoinWith([i \in 1..Len(component) |-> <<component[i]>>], <<".">>)

ScopeText(components) ==
    JoinWith([i \in 1..Len(components) |-> ComponentText(components[i])], <<" ">>)

-----------------------------------------------------------------------------
(* SuggestSyntaxTest.run.  The command is a chain of steps, each handing   *)
(* the view and the locals so far (the frame f) to the next; stage names   *)
(* the statement the run ended at, exc the exception it raised there.      *)

NoFrame ==
    [ran |-> FALSE, character |-> "", exc |-> "none", stage |-> "none",
     inserted |-> FALSE, text |-> <<>>, insert_at |-> 0, run |-> <<>>,
     lines |-> <<>>, line |-> None, end_token |-> <<>>, col |-> 0,
     test_at_start_of_comment |-> FALSE, merged |-> FALSE, length |-> 0,
     scopes |-> <<>>, shared_scopes |-> <<>>, scope |-> <<>>,
     out_text |-> <<>>, out_sel |-> <<0, 0>>]

\* for pos in range(pos, to): the scan of the columns whose scope does not
\* change (lines 164 to 173); the result is <<scopes, length>>
RECURSIVE ScanLoop(_, _, _, _, _, _)
ScanLoop(text, pos, to, scopes, length, single) ==
    IF pos >= to THEN <<scopes, length>>
    ELSE IF Len(scopes) > 0 /\ ScopeName(text, pos) # scopes[1]
    THEN <<scopes, length>>
    ELSE IF single
    THEN <<IF Len(scopes) > 0 THEN scopes ELSE <<ScopeName(text, pos)>>,
           length + 1>>
    ELSE ScanLoop(text, pos + 1, to,
                  IF Len(scopes) > 0 THEN scopes ELSE <<ScopeName(text, pos)>>,
                  length + 1, single)

\* for pos in range(pos, to): the unique scopes at each existing assertion
\* position (lines 178 to 181)
RECURSIVE MergeLoop(_, _, _, _)
MergeLoop(text, pos, to, scopes) ==
    IF pos >= to THEN scopes
    ELSE MergeLoop(text, pos + 1, to,
                   IF \E i \in 1..Len(scopes) : scopes[i] = ScopeName(text, pos)
                   THEN scopes
                   ELSE Append(scopes, ScopeName(text, pos)))

\* for check_scope in scopes[0].split(): the components every scope matches
\* (lines 186 to 189)
RECURSIVE SharedLoop(_, _)
SharedLoop(components, scopes) ==
    IF components = <<>> THEN <<>>
    ELSE (IF \A i \in 1..Len(scopes) :
                ScoreSelector(scopes[i], components[1]) > 0
          THEN <<components[1]>>
          ELSE <<>>) \o SharedLoop(Tail(components), scopes)

\* a scan that stops at the last character of the line
ScanEndAtLastCharacter(line) == line[2]

\* range(line.begin() + col, line.end() + 1): where the scan ends
ScanEnd(line) == line[2] + 1

\* a selection that takes the inserted carets in
SelectionWithCarets(insert_at, length, annotation) ==
    <<insert_at, insert_at + length + Len(annotation)>>

\* the selection set over the added scope name (lines 207 to 211)
SelectionAfterInsert(insert_at, length, annotation) ==
    <<insert_at + length, insert_at + length + Len(annotation)>>

\* lines 146 to 151: the end token to add, with its space
EndToken(view, nearest, declared_end) ==
    IF declared_end # None /\ RegionEnd(view.sel) = nearest.line_region[2]
    THEN <<" ">> \o declared_end
    ELSE <<>>

\* lines 203 to 211
SuggestSelect(f, text, annotation) ==
    [f EXCEPT !.inserted = TRUE, !.stage = "done",
              !.out_text = InsertText(text, f.insert_at,
                                      Repeat(f.character, f.length)
                                          \o annotation),
              !.out_sel = SelectionAfterInsert(f.insert_at, f.length,
                                               annotation)]

\* lines 199 to 203
SuggestInsert(view, f) ==
    SuggestSelect(f,
                  IF ~RegionEmpty(view.sel) THEN EraseText(view.text, view.sel)
                  ELSE view.text,
                  <<" ">> \o f.scope \o f.end_token)

\* lines 191 to 197; shared_scopes[0] raises on the empty list
SuggestBase(view, f) ==
    IF f.shared_scopes = <<>>
    THEN [f EXCEPT !.exc = "IndexError", !.stage = "raise 194"]
    ELSE SuggestInsert(view,
            [f EXCEPT !.scope = ScopeText(
                Drop(f.shared_scopes,
                     IF f.shared_scopes[1] = ScopeName(view.text, 0)[1]
                     THEN 1 ELSE 0))])

\* lines 186 to 189; scopes[0] raises on the empty list
SuggestShared(view, f) ==
    IF f.scopes = <<>>
    THEN [f EXCEPT !.exc = "IndexError", !.stage = "raise 187"]
    ELSE SuggestBase(view,
            [f EXCEPT !.shared_scopes = SharedLoop(f.scopes[1], f.scopes)])

\* lines 175 to 181
SuggestMerge(view, f, scan) ==
    SuggestShared(view,
        [f EXCEPT !.length = scan[2],
                  !.merged = f.lines # <<>> /\ ~f.test_at_start_of_comment,
                  !.scopes =
                      IF f.lines # <<>> /\ ~f.test_at_start_of_comment
                      THEN MergeLoop(
                              view.text,
                              f.line[1] + f.lines[1].assertion_colrange[1],
                              f.line[1] + f.lines[1].assertion_colrange[2],
                              scan[1])
                      ELSE scan[1]])

\* lines 164 to 173
SuggestScan(view, f) ==
    SuggestMerge(view, f,
                 ScanLoop(view.text, f.line[1] + f.col, ScanEnd(f.line), <<>>,
                          0, f.test_at_start_of_comment))

\* lines 156 to 162
SuggestMode(view, f, assertion_colrange) ==
    SuggestScan(view,
        IF assertion_colrange[1] = assertion_colrange[2]
        THEN [f EXCEPT !.col = assertion_colrange[2],
                       !.test_at_start_of_comment = TRUE,
                       !.lines = Tail(f.lines)]
        ELSE [f EXCEPT !.col = ViewCol(view.text, f.insert_at)])

\* lines 145 to 158; lines 148 and 158 index lines[0], which raises on the
\* empty run
SuggestWalked(view, f, w, declared_end) ==
    IF w.exc # "none" THEN [f EXCEPT !.exc = w.exc, !.stage = "raise 145"]
    ELSE IF w.lines = <<>>
    THEN [f EXCEPT !.line = w.line, !.exc = "IndexError",
                   !.stage = IF declared_end # None THEN "raise 148"
                             ELSE "raise 158"]
    ELSE SuggestMode(view,
            [f EXCEPT !.run = w.lines, !.lines = w.lines, !.line = w.line,
                      !.end_token = EndToken(view, w.lines[1], declared_end)],
            IF w.lines[1].assertion_colrange # None
            THEN w.lines[1].assertion_colrange
            ELSE <<-1, -1>>)

\* lines 141 to 146
SuggestReplaced(view, f) ==
    IF ~is_syntax_test_file(view) THEN [f EXCEPT !.stage = "return 143"]
    ELSE SuggestWalked(view, f, get_details_of_line_being_tested(view),
                       get_syntax_test_tokens(view)[2])

\* lines 139 to 141: the frame once the selection is replaced
FrameOfView(view, character) ==
    [NoFrame EXCEPT !.ran = TRUE, !.character = character,
                    !.text = view.text, !.insert_at = RegionBegin(view.sel),
                    !.out_text = view.text, !.out_sel = view.sel]

SuggestRun(view, character) ==
    SuggestReplaced(
        View(ReplaceText(view.text, view.sel, <<character>>), view.name,
             ReplaceSel(view.sel, <<character>>)),
        FrameOfView(
            View(ReplaceText(view.text, view.sel, <<character>>), view.name,
                 ReplaceSel(view.sel, <<character>>)),
            character))

-----------------------------------------------------------------------------
(* HighlightTestViewEventListener.on_selection_modified_async              *)

\* re.match(r'^\^+$', text) is not None: $ also matches before a final newline
MatchCaretsOnly(text) ==
    /\ LeadingWhile(text, Caret, TRUE) >= 1
    /\ Drop(text, LeadingWhile(text, Caret, TRUE)) \in {<<>>, <<NL>>}

\* lines 219 to 224
HighlightOnlyCursor(view) ==
    IF RegionEmpty(view.sel) THEN FALSE
    ELSE MatchCaretsOnly(ViewSubstr(view.text, view.sel))

\* lines 232 to 239
HighlightRegion(view, colrange, line, highlight_only_cursor) ==
    <<line[1] + (IF highlight_only_cursor
                 THEN ViewCol(view.text, RegionBegin(view.sel))
                 ELSE colrange[1]),
      line[1] + (IF highlight_only_cursor
                 THEN ViewCol(view.text, RegionEnd(view.sel))
                 ELSE IF colrange[2] = colrange[1] THEN colrange[2] + 1
                 ELSE colrange[2])>>

\* lines 226 to 263, with the walker's result at hand: exc, and the regions
\* left under the key
HighlightWalked(view, drawn, w) ==
    IF w.exc # "none" THEN [exc |-> w.exc, regions |-> drawn]
    ELSE IF w.lines = None \/ w.lines = <<>>
    THEN [exc |-> "none", regions |-> <<>>]
    ELSE IF w.lines[1].assertion_colrange = None
    THEN [exc |-> "none", regions |-> <<>>]
    ELSE [exc |-> "none",
          regions |-> <<HighlightRegion(view, w.lines[1].assertion_colrange,
                                        w.line, HighlightOnlyCursor(view))>>]

HighlightRun(view, drawn) ==
    HighlightWalked(view, drawn, get_details_of_line_being_tested(view))

-----------------------------------------------------------------------------
(* Documents, file names and selections the model draws its inputs from.   *)

\* # SYNTAX TEST "x"
DeclPlain == <<"#", " ", "S", "Y", "N", "T", "A", "X", " ", "T", "E", "S", "T", " ", "\"", "x", "\"">>

\* # SYNTAX TEST "x" $
DeclEnd == <<"#", " ", "S", "Y", "N", "T", "A", "X", " ", "T", "E", "S", "T", " ", "\"", "x", "\"", " ", "$">>

\* # x
NotDecl == <<"#", " ", "x">>

\* /d/syntax_test_a
NameTest == <<"/", "d", "/", "s", "y", "n", "t", "a", "x", "_", "t", "e", "s", "t", "_", "a">>

\* /syntax_test_d/a
NameOther == <<"/", "s", "y", "n", "t", "a", "x", "_", "t", "e", "s", "t", "_", "d", "/", "a">>

\* lines joined by newlines
JoinLines(ls) == JoinWith(ls, <<NL>>)

Characters == {"^", "-"}

Selections(text) ==
    {s \in (0..Len(text)) \X (0..Len(text)) :
        s[1] <= s[2] /\ s[2] - s[1] <= MaxSelWidth}

Cursors(text) == {<<a, a>> : a \in 0..Len(text)}

SuggestDocs ==
    {JoinLines(<<DeclPlain, <<"a", "c", "b", "x">>, <<"#", "^">>, <<"#", " ", "^", " ">>>>),
     JoinLines(<<DeclEnd, <<"x", "x", "d">>, <<"#", " ", "<">>, <<"#", "x">>>>),
     JoinLines(<<DeclPlain, <<"x", "b", "b", "a">>, <<"#", "^">>, <<"#">>>>),
     JoinLines(<<NotDecl, <<"a", "b">>, <<"#", "^">>>>)}

SuggestNames == {None, NameTest, NameOther}

SessionDocs ==
    {JoinLines(<<DeclPlain, <<"a", "b">>, <<"#", "^", "^">>, <<>>>>),
     JoinLines(<<NotDecl, <<"#", "^">>>>)}

SessionNames == {None, NameTest}

WalkerLineKinds ==
    {<<"a", "b">>, <<"#", "^">>, <<" ", "#", "<", "-">>, <<"#">>}

WalkerDocs ==
    {JoinLines(<<decl>> \o ls) :
        decl \in {DeclPlain, NotDecl},
        ls \in UNION {[1..n -> WalkerLineKinds] : n \in 0..MaxLines}}

WalkerNames == {None, NameTest}

Called(w) ==
    [called |-> TRUE, exc |-> w.exc, lines |-> w.lines, line |-> w.line,
     absent |-> w.absent]

NotWalked == [called |-> FALSE, exc |-> "none", lines |-> None, line |-> None,
              absent |-> FALSE]

-----------------------------------------------------------------------------
(* The editing session: the user moves the selection, the host runs the    *)
(* scheduled highlight recomputations, the user invokes the command.       *)

Init ==
    /\ buf \in SessionDocs
    /\ fname \in SessionNames
    /\ sel = <<0, 0>>
    /\ regions = <<>>
    /\ pending = 0
    /\ hstat = "idle"
    /\ frame = NoFrame
    /\ ncmd = 0
    /\ walked = NotWalked

\* the user changes the selection; the host schedules the handler
SelectionModified ==
    /\ pending < MaxPending
    /\ \E s \in Selections(buf) :
        /\ s # sel
        /\ sel' = s
    /\ pending' = pending + 1
    /\ UNCHANGED <<buf, fname, regions, hstat, frame, ncmd, walked>>

\* the host runs one scheduled on_selection_modified_async
OnSelectionModifiedAsync ==
    /\ pending > 0
    /\ \E r \in {HighlightRun(View(buf, fname, sel), regions)} :
        /\ regions' = r.regions
        /\ hstat' = r.exc
    /\ pending' = pending - 1
    /\ UNCHANGED <<buf, fname, sel, frame, ncmd, walked>>

\* the suggest_syntax_test command; what it did to the text and the selection
\* before an exception stays, and the host schedules the handler
SuggestSyntaxTest(character) ==
    /\ pending < MaxPending
    /\ \E f \in {SuggestRun(View(buf, fname, sel), character)} :
        /\ frame' = f
        /\ buf' = f.out_text
        /\ sel' = f.out_sel
    /\ ncmd' = ncmd + 1
    /\ pending' = pending + 1
    /\ UNCHANGED <<fname, regions, hstat, walked>>

SessionCommand ==
    /\ ncmd < MaxSessionCommands
    /\ SuggestSyntaxTest("^")

Next ==
    \/ SelectionModified
    \/ OnSelectionModifiedAsync
    \/ SessionCommand

Spec == Init /\ [][Next]_vars

-----------------------------------------------------------------------------
(* The command alone, from any document, name and selection.               *)

InitSuggest ==
    /\ buf \in SuggestDocs
    /\ fname \in SuggestNames
    /\ sel \in Selections(buf)
    /\ regions = <<>>
    /\ pending = 0
    /\ hstat = "idle"
    /\ frame = NoFrame
    /\ ncmd = 0
    /\ walked = NotWalked

SuggestCommand ==
    /\ ncmd < MaxCommands
    /\ \E character \in Characters : SuggestSyntaxTest(character)

NextSuggest == SuggestCommand

SpecSuggest == InitSuggest /\ [][NextSuggest]_vars

-----------------------------------------------------------------------------
(* The walker alone, on any document and cursor.                           *)

InitWalker ==
    /\ buf \in WalkerDocs
    /\ fname \in WalkerNames
    /\ sel \in Cursors(buf)
    /\ regions = <<>>
    /\ pending = 0
    /\ hstat = "idle"
    /\ frame = NoFrame
    /\ ncmd = 0
    /\ walked = NotWalked

Walk ==
    /\ ~walked.called
    /\ walked' = Called(get_details_of_line_being_tested(View(buf, fname, sel)))
    /\ UNCHANGED <<buf, fname, sel, regions, pending, hstat, frame, ncmd>>

NextWalker == Walk

SpecWalker == InitWalker /\ [][NextWalker]_vars

-----------------------------------------------------------------------------
(* Lines by number, for the statements below.                              *)

CurrentView == View(buf, fname, sel)

NewlinesBefore(text, pos) == Cardinality({i \in 1..pos : text[i] = NL})

\* the position where line k (from 0) starts
LineStart(text, k) ==
    CHOOSE p \in {0} \cup {i \in 1..Len(text) : text[i] = NL} :
        NewlinesBefore(text, p) = k

DetailsOfLineNo(view, k) ==
    get_details_of_test_assertion_line(view, LineStart(view.text, k))

IsCommentLine(view, k) == DetailsOfLineNo(view, k).comment_marker_match # None

CarriesAssertion(view, k) == DetailsOfLineNo(view, k).assertion_colrange # None

DeclarationParses(view) == get_syntax_test_tokens(view)[1] # None

-----------------------------------------------------------------------------
(* C1                                                                      *)

\* how many lines directly above line k carry an assertion, contiguously
AssertionsAbove(view, k) ==
    Max({n \in 0..k : \A j \in 1..n : CarriesAssertion(view, k - j)})

C1Run(view, k, above) ==
    IF ~IsCommentLine(view, k) THEN <<>>
    ELSE [j \in 1..(above + 1) |-> DetailsOfLineNo(view, k - j + 1)]

C1TestedLine(view, k, above) ==
    ViewLine(view.text,
             LineStart(view.text,
                       IF ~IsCommentLine(view, k) THEN k
                       ELSE IF above = k THEN 0
                       ELSE k - above - 1))

C1Holds(view, k, w) ==
    /\ w.exc = "none"
    /\ ~w.absent
    /\ w.lines = C1Run(view, k, AssertionsAbove(view, k))
    /\ w.line = C1TestedLine(view, k, AssertionsAbove(view, k))
    /\ \A i \in 2..Len(w.lines) : w.lines[i].assertion_colrange # None

\* C1: in a test file whose declaration line parses, the walker returns,
\* nearest first, the cursor line if it is a comment line (nothing when it is
\* not) followed by exactly the lines directly above it that carry an
\* assertion, up to the first that does not; only the first element may lack
\* an assertion; the tested line is the line the walk stopped at, or line 0
\* when every line up to the top was appended.
C1_WalkerRun ==
    (walked.called /\ is_syntax_test_file(CurrentView)
        /\ DeclarationParses(CurrentView))
    => C1Holds(CurrentView, NewlinesBefore(buf, RegionBegin(sel)), walked)

\* the cursor is on a comment line without an assertion, two assertion lines
\* lie above it, and the walk stopped at a comment line without an assertion
C1_Witness ==
    /\ walked.called
    /\ walked.exc = "none"
    /\ ~walked.absent
    /\ Len(walked.lines) = 3
    /\ walked.lines[1].assertion_colrange = None
    /\ walked.line[1] = 0
    /\ NewlinesBefore(buf, RegionBegin(sel)) = 3

-----------------------------------------------------------------------------
(* C2                                                                      *)

SuggestReachedWalk == frame.ran /\ frame.stage \notin {"return 143", "raise 145"}

SuggestReachedScan == frame.ran /\ frame.stage \in {"raise 187", "raise 194", "done"}

\* C2: when the walker returns an empty run to the command, the command
\* finishes without raising.
C2_EmptyRunNoError ==
    (SuggestReachedWalk /\ frame.run = <<>>) => frame.exc = "none"

-----------------------------------------------------------------------------
(* C3                                                                      *)

AcceptedByNameOnly(view) ==
    /\ view.name # None
    /\ is_syntax_test_file(view)
    /\ ~DeclarationParses(view)

\* C3: in a document accepted by its name whose first line is no declaration,
\* the highlight handler and the command (and the walker both call) complete
\* without raising.
C3_NoRaiseWithoutTokens ==
    [][/\ (pending' < pending /\ AcceptedByNameOnly(CurrentView))
            => hstat' = "none"
       /\ (ncmd' > ncmd /\ AcceptedByNameOnly(View(frame'.text, fname, sel')))
            => frame'.exc = "none"]_vars

-----------------------------------------------------------------------------
(* C4                                                                      *)

\* C4: when no component of the reference scope is shared by every collected
\* scope, the command completes and inserts the carets with an empty scope.
C4_EmptySharedScopes ==
    (frame.ran /\ frame.stage \in {"raise 194", "done"}
        /\ frame.shared_scopes = <<>>)
    => (frame.exc = "none" /\ frame.inserted /\ frame.scope = <<>>)

-----------------------------------------------------------------------------
(* C5                                                                      *)

OnlyCarets(text) == text # <<>> /\ \A i \in 1..Len(text) : text[i] = "^"

C5Columns(view, colrange) ==
    IF ~RegionEmpty(view.sel) /\ OnlyCarets(ViewSubstr(view.text, view.sel))
    THEN <<ViewCol(view.text, RegionBegin(view.sel)),
           ViewCol(view.text, RegionEnd(view.sel))>>
    ELSE IF colrange[1] = colrange[2] THEN <<colrange[1], colrange[2] + 1>>
    ELSE colrange

C5RegionOf(line, columns) == <<line[1] + columns[1], line[1] + columns[2]>>

C5Highlight(view, w) ==
    IF w.exc # "none" \/ w.absent \/ w.lines = <<>> THEN <<>>
    ELSE IF w.lines[1].assertion_colrange = None THEN <<>>
    ELSE <<C5RegionOf(w.line,
                      C5Columns(view, w.lines[1].assertion_colrange))>>

\* C5: a highlight recomputation that completes leaves no region when the run
\* is absent or empty or its nearest line has no assertion, and otherwise one
\* region on the tested line: over the selection's columns if the selection is
\* non-empty and only carets, else over the nearest assertion's columns,
\* widened by one when they are zero-width.
C5_HighlightProjection ==
    [][(pending' < pending /\ hstat' = "none")
        => regions' = C5Highlight(CurrentView,
                                  get_details_of_line_being_tested(CurrentView))]_vars

-----------------------------------------------------------------------------
(* C6                                                                      *)

\* C6: once every scheduled recomputation has run, the highlight is the one
\* computed from the current document and selection; an older run's region
\* does not survive.
C6_NoStaleHighlight ==
    (pending = 0 /\ hstat # "idle")
    => regions = HighlightRun(CurrentView, <<>>).regions

-----------------------------------------------------------------------------
(* C7                                                                      *)

NearestIsCaretRun ==
    /\ SuggestReachedScan
    /\ frame.run[1].assertion_colrange # None
    /\ frame.run[1].assertion_colrange[1] < frame.run[1].assertion_colrange[2]

\* length is the number of consecutive positions from start, none after
\* last, whose scope is that of start
IsScopeRun(text, start, last, length) ==
    /\ \A k \in 0..(length - 1) :
        /\ start + k <= last
        /\ ScopeName(text, start + k) = ScopeName(text, start)
    /\ \/ start + length > last
       \/ ScopeName(text, start + length) # ScopeName(text, start)

\* C7 as amended: when the nearest assertion is a caret run, the length counts
\* the consecutive positions from the start column whose scope is that of the
\* start column, up to and including the position at the end of the tested
\* line (that of its newline).
C7_ScanLength ==
    NearestIsCaretRun
    => IsScopeRun(frame.text, frame.line[1] + frame.col, frame.line[2],
                  frame.length)

\* C7 as claimed: the length never counts a position beyond the tested line's
\* last character.
C7_ScanLengthWithinLine ==
    NearestIsCaretRun
    => IsScopeRun(frame.text, frame.line[1] + frame.col, frame.line[2] - 1,
                  frame.length)

\* below a caret run, the scan counted two positions or more, the last of
\* them the position at the end of the tested line
C7_Witness ==
    /\ NearestIsCaretRun
    /\ frame.length >= 2
    /\ frame.line[1] + frame.col + frame.length - 1 = frame.line[2]

-----------------------------------------------------------------------------
(* C8                                                                      *)

NearestIsZeroWidth ==
    /\ frame.run[1].assertion_colrange # None
    /\ frame.run[1].assertion_colrange[1] = frame.run[1].assertion_colrange[2]

\* C8: the command scans in single-column mode, from the assertion's column
\* and without the nearest line in the merge, if and only if the nearest
\* line's colrange is zero-width; otherwise it scans from the inserted
\* character's column and keeps the nearest line.
C8_SingleColumnMode ==
    SuggestReachedScan
    => /\ frame.test_at_start_of_comment <=> NearestIsZeroWidth
       /\ NearestIsZeroWidth
            => /\ frame.col = frame.run[1].assertion_colrange[1]
               /\ frame.lines = Tail(frame.run)
       /\ ~NearestIsZeroWidth
            => /\ frame.col = ViewCol(frame.text, frame.insert_at)
               /\ frame.lines = frame.run

-----------------------------------------------------------------------------
(* C9                                                                      *)

C9Candidates(text, line, reference, colrange) ==
    {reference} \cup
    (IF colrange # None /\ colrange[1] < colrange[2]
     THEN {ScopeName(text, line[1] + c) : c \in colrange[1]..(colrange[2] - 1)}
     ELSE {})

C9Shared(reference, candidates) ==
    SelectSeq(reference,
              LAMBDA component :
                  \A scope \in candidates : ScoreSelector(scope, component) # 0)

C9Annotation(text, shared) ==
    ScopeText(IF shared # <<>> /\ shared[1] = ScopeName(text, 0)[1]
              THEN Tail(shared) ELSE shared)

C9Claimed(text, line, reference, colrange) ==
    C9Annotation(text,
                 C9Shared(reference,
                          C9Candidates(text, line, reference, colrange)))

\* C9: the inserted scope annotation is, in order, the components of the scope
\* at the scan's start column that score nonzero against that scope and,
\* outside the <- case, every scope on the tested line across the nearest
\* assertion's columns; the first of them is dropped exactly when it is the
\* first component of the scope at position 0.
C9_Annotation ==
    frame.inserted
    => frame.scope = C9Claimed(frame.text, frame.line,
                               ScopeName(frame.text, frame.line[1] + frame.col),
                               frame.run[1].assertion_colrange)

-----------------------------------------------------------------------------
(* C10                                                                     *)

C10Selection ==
    frame.inserted
    => /\ sel[1] = frame.insert_at + frame.length
       /\ sel[2] - sel[1] = 1 + Len(frame.scope) + Len(frame.end_token)
       /\ ViewSubstr(buf, sel) = <<" ">> \o frame.scope \o frame.end_token
       /\ \A i \in 1..frame.length :
            buf[frame.insert_at + i] = frame.character

C10Again ==
    (/\ ncmd' = ncmd + 1
     /\ frame.inserted /\ frame.character = "^"
     /\ frame'.inserted /\ frame'.character = "^")
    => /\ frame'.insert_at = sel[1]
       /\ Take(buf', sel[1]) = Take(buf, sel[1])
       /\ Drop(buf', sel'[2]) = Drop(buf, sel[2])
       /\ \A i \in (frame.insert_at + 1)..(frame'.insert_at + frame'.length) :
            buf'[i] = "^"

\* C10: after an insertion the selection begins right behind the inserted
\* carets and covers exactly ' ' + scopes + suffix; invoking the command again
\* replaces only that text, and the carets of both runs are contiguous.
C10_SelectionAfterInsert == [](C10Selection) /\ [][C10Again]_vars

\* a second invocation inserted carets right behind a caret
C10_Witness ==
    /\ ncmd = 2
    /\ frame.inserted
    /\ frame.character = "^"
    /\ frame.length >= 1
    /\ frame.scope # <<>>
    /\ frame.insert_at >= 1
    /\ buf[frame.insert_at] = "^"
    /\ sel[1] = frame.insert_at + frame.length

=============================================================================
